---- MODULE Spec2Model ----
(***************************************************************************)
(* The transfer pipeline of the wallet service: TransferService over the   *)
(* Redis cache/lease (RedisService) and the PostgreSQL ledger (wallets,    *)
(* transaction_logs).  Every await of executeTransfer is one step of a     *)
(* request; requests interleave freely.                                    *)
(***************************************************************************)
EXTENDS Integers, Sequences, FiniteSets, TLC

(***************************************************************************)
(* Bounds and the input space                                              *)
(***************************************************************************)
\* Request slots; a slot's name doubles as the UUID of the log it inserts.
Reqs == {"r1", "r2", "r3"}

Keys == {"k1", "k2"}

\* A key of more than MaxKeyOctets octets.
LongKey == "long"

\* The longest idempotencyKey the transaction_logs model takes.
MaxKeyOctets == 255

\* The length of a key text in octets.
KeyOctets(k) ==
  IF k = "" THEN 0 ELSE IF k = LongKey THEN MaxKeyOctets + 1 ELSE 2

\* Scaled stand-in for the limit of getTransactionHistory (100 in
\* TransferService.ts:351).
HistoryLimit == 1

\* Scaled stand-in for LOCK_MAX_RETRIES (50 in RedisService.ts:31).
MaxLockAttempts == 2

\* The largest transfer amount of the input space, in ticks of 0.0001.
MaxAmount == 2

\* The number of requests the service works on at the same time.
MaxInFlight == 2

\* Wallet rows of the ledger (canonical lower-case uuid text).
Rows == {"a", "b"}

\* Textual wallet ids a request may carry: "A" and "B" are the upper-case
\* spellings of the rows "a" and "b"; "0" is a well-formed uuid that names no
\* row.
Texts == {"A", "B", "a", "b", "0"}

\* The uuid a textual id denotes in PostgreSQL (uuid input is case-blind).
RowOf(t) == IF t = "A" THEN "a" ELSE IF t = "B" THEN "b" ELSE t

\* JavaScript string order on the textual ids (UTF-16 code units:
\* digits < upper-case < lower-case).
Rank(t) ==
  CASE t = "0" -> 0 [] t = "A" -> 1 [] t = "B" -> 2 [] t = "a" -> 3
    [] t = "b" -> 4

JsLess(s, t) == Rank(s) < Rank(t)

(***************************************************************************)
(* Money.  A DECIMAL(19,4) value is hi * Base + lo ticks of 0.0001, where  *)
(* Base = 600000000000000.0000 lies in the binade [2^49, 2^50) of IEEE     *)
(* doubles, in which consecutive doubles are 0.125 = 1250 ticks apart.     *)
(***************************************************************************)
Grid == 10000 \div 8

Money(h, l) == [hi |-> h, lo |-> l]

Small(l) == Money(0, l)

Big(l) == Money(1, l)

NoMoney == Money(-1, 0)

\* Round l to the nearest multiple of Grid, ties to the even multiple
\* (Base / Grid is even, so parity is that of the offset).
RoundGrid(l) ==
  LET q == l \div Grid
      m == l % Grid
  IN  IF 2 * m < Grid THEN q * Grid
      ELSE IF 2 * m > Grid THEN (q + 1) * Grid
      ELSE IF q % 2 = 0 THEN q * Grid ELSE (q + 1) * Grid

\* parseFloat of a decimal string with 4 fractional digits.  Below 2^31 ticks
\* the double is within 1e-11 of the decimal; at Base it is on the grid.
ParseFloat(m) == IF m.hi = 1 THEN Money(1, RoundGrid(m.lo)) ELSE m

\* (x - y).toFixed(4) and (x + y).toFixed(4) on doubles x, y.  A double on
\* the grid has at most 3 fractional digits and a small one is within 1e-11
\* of a whole number of ticks, so toFixed(4) returns the tick value of the
\* rounded double.
SubFixed(x, y) ==
  IF x.hi - y.hi = 1 THEN Money(1, RoundGrid(x.lo - y.lo))
  ELSE Money(x.hi - y.hi, x.lo - y.lo)

AddFixed(x, y) ==
  IF x.hi + y.hi = 1 THEN Money(1, RoundGrid(x.lo + y.lo))
  ELSE Money(x.hi + y.hi, x.lo + y.lo)

FloatLess(x, y) == x.hi < y.hi \/ (x.hi = y.hi /\ x.lo < y.lo)

(***************************************************************************)
(* Records                                                                 *)
(***************************************************************************)
NoId == "none"

NoMsg == [text |-> "", available |-> NoMoney, required |-> NoMoney]

Msg(t) == [text |-> t, available |-> NoMoney, required |-> NoMoney]

\* The text of an amount.  form "decimal" is a decimal numeral of value
\* hi * Base + lo ticks + frac tenths of a tick; "prefixed" is such a numeral
\* followed by other characters ("0.0001abc"); "word" is a text that does not
\* start with a numeral ("abc", "NaN"); "empty" is "" or an absent field.
AmountText(fm, h, l, fr) == [form |-> fm, hi |-> h, lo |-> l, frac |-> fr]

Decimal(h, l) == AmountText("decimal", h, l, 0)

\* parseFloat of an amount text: the numeral at its start, or NaN (nan).
parseFloat(a) ==
  [nan |-> a.form \in {"word", "empty"}, hi |-> a.hi, lo |-> a.lo,
   frac |-> a.frac]

\* The value of an amount text that is a numeral with at most four
\* fractional digits, as DECIMAL(19,4) stores it.
AmountMoney(a) == Money(a.hi, a.lo)

\* TransferRequest (types/index.ts); a is the amount in ticks.
Request(f, t, a, k) ==
  [fromWalletId |-> f, toWalletId |-> t, amount |-> Decimal(0, a),
   idempotencyKey |-> k]

\* The requests clients send.
ReqX == Request("a", "b", MaxAmount, "k1")

ReqY == Request("b", "a", 1, "k2")

\* Same key as ReqX, other body; both ids spell row "a".
ReqZ == Request("A", "a", 1, "k1")

\* Same key as ReqY, other body; the destination names no row.
ReqW == Request("a", "0", 1, "k2")

\* Two transfers with distinct keys that debit the same wallet, each for its
\* whole balance.
ReqU == Request("a", "b", 1, "k1")

ReqV == Request("a", "b", 1, "k2")

\* A transfer from the large wallet of 0.0001 more than it holds.
ReqB == [Request("b", "a", 1, "k1") EXCEPT !.amount = Decimal(1, 1)]

\* An amount text that starts with a numeral and goes on with letters.
ReqJ == [Request("a", "b", 1, "k1") EXCEPT
           !.amount = AmountText("prefixed", 0, 1, 0)]

\* A transfer from a wallet to itself, refused by the validator.
ReqS == Request("a", "a", 1, "k1")

\* A transfer from row "a" to row "b", the latter spelled in upper case.
ReqC == Request("a", "B", 1, "k1")

\* What a query returns (code "") or throws.
Answer(o, w, c, b, l) ==
  [op |-> o, walletId |-> w, code |-> c, balance |-> b, logs |-> l]

NoAnswer == Answer("none", "", "", NoMoney, << >>)

\* TransferResponse, or the TransferError thrown (code # "").
Response(ok, id, msg, fb, tb) ==
  [success |-> ok, transactionId |-> id, message |-> msg,
   fromBalance |-> fb, toBalance |-> tb, code |-> "", statusCode |-> 200]

TransferError(msg, st, c) ==
  [success |-> FALSE, transactionId |-> NoId, message |-> msg,
   fromBalance |-> NoMoney, toBalance |-> NoMoney, code |-> c, statusCode |-> st]

NoResp == TransferError(Msg("none"), 0, "NONE")

\* A transaction_logs row.
LogRow(i, f, t, a, k) ==
  [id |-> i, fromWalletId |-> f, toWalletId |-> t, amount |-> a,
   status |-> "PENDING", idempotencyKey |-> k, errorMessage |-> NoMsg,
   metaKeys |-> {"requestedAt"}, fromBalanceAfter |-> NoMoney,
   toBalanceAfter |-> NoMoney, createdAt |-> 0]

NoLog == LogRow(NoId, "", "", Small(0), "")

VARIABLES
  wallets,      \* committed wallets rows: row -> [balance, version]
  logs,         \* committed transaction_logs rows (a set of records)
  rowLock,      \* row -> [fu: transaction holding FOR UPDATE or NoId,
                \*         ks: transactions holding FOR KEY SHARE]
  txLog,        \* slot -> the log row its open transaction inserted, or NoLog
  txWallets,    \* slot -> wallet rows written by its open transaction
  cache,        \* Redis idempotency:{key} -> cached response or NoResp
  lease,        \* Redis lock:{key} -> slot that set it, or NoId
  req,          \* slot -> the request it carries
  pc,           \* slot -> position in executeTransfer
  attempt,      \* slot -> attempt counter of acquireLockWithRetry
  held,         \* slot -> wallet instances read under lock (text -> row copy)
  result,       \* slot -> response or error carried to the return; once
                \* pc is "done", what executeTransfer returned or threw
  initial,      \* history: the balances the wallets were created with
  committed,    \* history: key -> slots whose transaction committed
  firstDone,    \* history: key -> first outcome returned by the executor
  prior,        \* history: slot -> firstDone of its key when it started
  touched,      \* history: slots whose steps changed a committed wallet
  redisUp,      \* history: slots that had a Redis call answered
  answer        \* what the last query returned or threw

vars == << wallets, logs, rowLock, txLog, txWallets, cache, lease, req, pc,
           attempt, held, result, initial, committed, firstDone,
           prior, touched, redisUp, answer >>

(***************************************************************************)
(* Pure parts of TransferService                                           *)
(***************************************************************************)
NoWallet == [balance |-> NoMoney, version |-> -1]

SlotNo(r) == CASE r = "r1" -> 1 [] r = "r2" -> 2 [] r = "r3" -> 3

KeyOf(r) == req[r].idempotencyKey

\* validateTransferRequest: the error thrown, or NoResp when the request passes.
validateTransferRequest(q) ==
  LET amountNum == parseFloat(q.amount)
  IN  IF \/ q.fromWalletId = "" \/ q.toWalletId = ""
         \/ q.amount.form = "empty" \/ q.idempotencyKey = ""
        THEN TransferError(Msg("Missing required fields"), 400,
                           "INVALID_REQUEST")
      ELSE IF q.fromWalletId = q.toWalletId
        THEN TransferError(Msg("Cannot transfer to the same wallet"), 400,
                           "SAME_WALLET_TRANSFER")
      ELSE IF \/ amountNum.nan
              \/ amountNum.hi < 0
              \/ amountNum.hi = 0 /\ amountNum.lo < 0
              \/ amountNum.hi = 0 /\ amountNum.lo = 0 /\ amountNum.frac <= 0
        THEN TransferError(Msg("Amount must be a positive number"), 400,
                           "INVALID_AMOUNT")
      ELSE IF amountNum.hi = 0 /\ amountNum.lo = 0
        THEN TransferError(Msg("Amount must be at least 0.0001"), 400,
                           "AMOUNT_TOO_SMALL")
      ELSE IF q.fromWalletId \notin Texts \/ q.toWalletId \notin Texts
        THEN TransferError(Msg("Invalid wallet ID format"), 400,
                           "INVALID_WALLET_ID")
      ELSE NoResp

\* buildResponseFromLog
buildResponseFromLog(log) ==
  LET message == IF log.status = "SUCCESS"
                   THEN Msg("Transfer already processed (idempotent request)")
                 ELSE IF log.status = "PENDING"
                   THEN Msg("Transfer is being processed")
                 ELSE Msg("Transfer previously failed")
  IN  IF log.status = "SUCCESS"
        THEN Response(TRUE, log.id, message, log.fromBalanceAfter,
                      log.toBalanceAfter)
        ELSE Response(FALSE, log.id, message, NoMoney, NoMoney)

\* A lookup that never finds a row.
FindOneNothing(k) == NoLog

\* TransactionLog.findOne({ where: { idempotencyKey } }): committed rows only.
FindOne(k) ==
  IF \E l \in logs : l.idempotencyKey = k
    THEN CHOOSE l \in logs : l.idempotencyKey = k
    ELSE NoLog

\* The row locks a transaction gives up when it ends.
ReleaseRows(r) ==
  [w \in Rows |->
     [fu |-> IF rowLock[w].fu = r THEN NoId ELSE rowLock[w].fu,
      ks |-> rowLock[w].ks \ {r}]]

\* SELECT ... FOR UPDATE on row w by r waits for every other lock holder.
CanLockForUpdate(r, w) ==
  /\ rowLock[w].fu \in {NoId, r}
  /\ rowLock[w].ks \subseteq {r}

\* The foreign-key check of the log insert takes FOR KEY SHARE on the wallet
\* row, which waits for a FOR UPDATE holder.
CanKeyShare(r, w) == rowLock[w].fu \in {NoId, r}

firstLockId(q) ==
  IF JsLess(q.fromWalletId, q.toWalletId) THEN q.fromWalletId ELSE q.toWalletId

secondLockId(q) ==
  IF JsLess(q.fromWalletId, q.toWalletId) THEN q.toWalletId ELSE q.fromWalletId

NoHeld == [first |-> NoWallet, second |-> NoWallet]

NoWrites == [w \in Rows |-> NoWallet]

(***************************************************************************)
(* Initial state                                                           *)
(***************************************************************************)
\* Ledgers the service may be started on: balances are DECIMAL(19,4) >= 0.
LedgerSmall == [w \in Rows |-> Small(1)]

LedgerBig == [w \in Rows |-> IF w = "a" THEN Small(1) ELSE Big(0)]

\* The workloads explored: a ledger and the requests of the slots r1, r2, r3.
Scenarios ==
  { << LedgerSmall, << ReqY, ReqY, ReqY >> >>,
    << LedgerSmall, << ReqX, ReqY, ReqX >> >>,
    << LedgerSmall, << ReqZ, ReqY, ReqX >> >>,
    << LedgerSmall, << ReqW, ReqY, ReqY >> >>,
    << LedgerSmall, << ReqU, ReqV, ReqV >> >>,
    << LedgerSmall, << ReqJ, ReqJ, ReqJ >> >>,
    << LedgerSmall, << ReqC, ReqY, ReqS >> >>,
    << LedgerBig, << ReqB, ReqY, ReqY >> >> }

\* One key, three times.
SameKeyScenarios == { << LedgerSmall, << ReqY, ReqY, ReqY >> >> }

\* The requests the validator is tried on: every combination of wallet id
\* texts ("" is an absent field, "x" is not a uuid), amount texts and keys.
ValidatorIds == Texts \cup {"", "x"}

ValidatorAmounts ==
  { AmountText("empty", 0, 0, 0), AmountText("word", 0, 0, 0),
    AmountText("prefixed", 0, 1, 0), Decimal(0, -1), Decimal(0, 0),
    AmountText("decimal", 0, 0, 5), Decimal(0, 1),
    AmountText("decimal", 0, 1, 5), Decimal(1, 1) }

ValidatorInputs ==
  { [fromWalletId |-> f, toWalletId |-> t, amount |-> a, idempotencyKey |-> k] :
      f \in ValidatorIds, t \in ValidatorIds, a \in ValidatorAmounts,
      k \in Keys \cup {"", LongKey} }

ValidatorScenarios ==
  { << LedgerSmall, << q, q, q >> >> : q \in ValidatorInputs }

InitWith(scenarios) ==
  /\ \E sc \in scenarios :
       /\ wallets = [w \in Rows |-> [balance |-> sc[1][w], version |-> 0]]
       /\ initial = sc[1]
       /\ req = [r \in Reqs |-> sc[2][SlotNo(r)]]
  /\ logs = {}
  /\ rowLock = [w \in Rows |-> [fu |-> NoId, ks |-> {}]]
  /\ txLog = [r \in Reqs |-> NoLog]
  /\ txWallets = [r \in Reqs |-> NoWrites]
  /\ cache = [k \in Keys |-> NoResp]
  /\ lease = [k \in Keys |-> NoId]
  /\ pc = [r \in Reqs |-> "init"]
  /\ attempt = [r \in Reqs |-> 0]
  /\ held = [r \in Reqs |-> NoHeld]
  /\ result = [r \in Reqs |-> NoResp]
  /\ committed = [k \in Keys |-> {}]
  /\ firstDone = [k \in Keys |-> NoResp]
  /\ prior = [r \in Reqs |-> NoResp]
  /\ touched = {}
  /\ redisUp = {}
  /\ answer = NoAnswer

Init == InitWith(Scenarios)

InitSameKey == InitWith(SameKeyScenarios)

InitValidator == InitWith(ValidatorScenarios)

(***************************************************************************)
(* executeTransfer, one action per await                                   *)
(***************************************************************************)
\* executeTransfer without the call of the validator.
BeginUnvalidated(r) ==
  /\ pc[r] = "init"
  /\ Cardinality({s \in Reqs : pc[s] \notin {"init", "done", "crashed"}}) < MaxInFlight
  /\ prior' = [prior EXCEPT ![r] =
                IF KeyOf(r) \in Keys THEN firstDone[KeyOf(r)] ELSE NoResp]
  /\ pc' = [pc EXCEPT ![r] = "cache_get"]
  /\ UNCHANGED << wallets, logs, rowLock, txLog, txWallets, cache, lease, req, answer,
                  attempt, held, result, initial, committed, firstDone,
                  touched, redisUp >>

\* Lines 38-41: destructure and validate; a rejected request throws at once.
Begin(r) ==
  /\ pc[r] = "init"
  /\ Cardinality({s \in Reqs : pc[s] \notin {"init", "done", "crashed"}}) < MaxInFlight
  /\ prior' = [prior EXCEPT ![r] =
                IF KeyOf(r) \in Keys THEN firstDone[KeyOf(r)] ELSE NoResp]
  /\ LET e == validateTransferRequest(req[r])
     IN  IF e # NoResp
           THEN /\ pc' = [pc EXCEPT ![r] = "done"]
                /\ result' = [result EXCEPT ![r] = e]
           ELSE /\ pc' = [pc EXCEPT ![r] = "cache_get"]
                /\ UNCHANGED result
  /\ UNCHANGED << wallets, logs, rowLock, txLog, txWallets, cache, lease, req, answer,
                  attempt, held, initial, committed, firstDone, touched,
                  redisUp >>

\* RedisService.getCachedResult: a Redis error reads as a miss.
getCachedResult(k, redisError) == IF redisError THEN NoResp ELSE cache[k]

\* Step 1 (lines 46-53).
CacheGetWith(r, redisError) ==
  /\ pc[r] = "cache_get"
  /\ LET cachedResult == getCachedResult(KeyOf(r), redisError)
     IN  /\ redisUp' = IF redisError THEN redisUp ELSE redisUp \cup {r}
         /\ IF cachedResult # NoResp
           THEN /\ pc' = [pc EXCEPT ![r] = "done"]
                /\ result' = [result EXCEPT ![r] =
                     [cachedResult EXCEPT !.message =
                        Msg("Transfer already processed (idempotent request) (from cache)")]]
           ELSE /\ pc' = [pc EXCEPT ![r] = "lock"]
                /\ UNCHANGED result
  /\ UNCHANGED << wallets, logs, rowLock, txLog, txWallets, cache, lease, req, answer,
                  attempt, held, initial, committed, firstDone, prior, touched >>

CacheGet(r) == \E redisError \in BOOLEAN : CacheGetWith(r, redisError)

\* A lease that fails closed: a Redis error counts as not acquired.
acquireLockFailClosed(k, redisError) == ~redisError /\ lease[k] = NoId

\* RedisService.acquireLock: SET lock:{key} NX EX 30; a Redis error counts
\* as acquired (fail open).
acquireLock(k, redisError) == redisError \/ lease[k] = NoId

\* Step 2 (line 59): one iteration of acquireLockWithRetry.
LockTryWith(r, redisError) ==
  /\ pc[r] = "lock"
  /\ redisUp' = IF redisError THEN redisUp ELSE redisUp \cup {r}
  /\ IF acquireLock(KeyOf(r), redisError)
    THEN /\ lease' = IF redisError THEN lease
                     ELSE [lease EXCEPT ![KeyOf(r)] = r]
         /\ pc' = [pc EXCEPT ![r] = "find"]
         /\ UNCHANGED attempt
    ELSE /\ attempt' = [attempt EXCEPT ![r] = @ + 1]
         /\ pc' = [pc EXCEPT ![r] =
                     IF attempt[r] + 1 < MaxLockAttempts THEN "lock"
                     ELSE "fb_find"]
         /\ UNCHANGED lease
  /\ UNCHANGED << wallets, logs, rowLock, txLog, txWallets, cache, req, answer, held,
                  result, initial, committed, firstDone, prior, touched >>

LockTry(r) == \E redisError \in BOOLEAN : LockTryWith(r, redisError)

\* A lease without a TTL.
LeaseExpireNever(k) == FALSE /\ UNCHANGED vars

\* The lease's TTL (LOCK_TTL, 30 s) runs out.
LeaseExpire(k) ==
  /\ lease[k] # NoId
  /\ lease' = [lease EXCEPT ![k] = NoId]
  /\ UNCHANGED << wallets, logs, rowLock, txLog, txWallets, cache, req, answer, pc,
                  attempt, held, result, initial, committed, firstDone, prior,
                  touched,
                  redisUp >>

\* Lines 61-80: the lease was not obtained; look the key up in the ledger.
FallbackFind(r) ==
  /\ pc[r] = "fb_find"
  /\ LET existingTransaction == FindOne(KeyOf(r))
     IN  IF existingTransaction # NoLog
           THEN /\ result' = [result EXCEPT ![r] =
                                buildResponseFromLog(existingTransaction)]
                /\ pc' = [pc EXCEPT ![r] = "fb_cache"]
           ELSE /\ result' = [result EXCEPT ![r] =
                     TransferError(Msg("Request is being processed by another instance. Please retry."),
                                   409, "CONCURRENT_PROCESSING")]
                /\ pc' = [pc EXCEPT ![r] = "done"]
  /\ UNCHANGED << wallets, logs, rowLock, txLog, txWallets, cache, lease, req, answer,
                  attempt, held, initial, committed, firstDone, prior, touched,
                  redisUp >>

\* A cache write that is never issued.
cacheResultNever(k, res, redisError) == cache

\* RedisService.cacheResult: SETEX idempotency:{key}; errors are swallowed.
cacheResult(k, res, redisError) ==
  IF redisError THEN cache ELSE [cache EXCEPT ![k] = res]

\* Lines 71-72.
FallbackCacheWith(r, redisError) ==
  /\ pc[r] = "fb_cache"
  /\ cache' = cacheResult(KeyOf(r), result[r], redisError)
  /\ redisUp' = IF redisError THEN redisUp ELSE redisUp \cup {r}
  /\ pc' = [pc EXCEPT ![r] = "done"]
  /\ UNCHANGED << wallets, logs, rowLock, txLog, txWallets, lease, req, answer,
                  attempt, held, result, initial, committed, firstDone, prior,
                  touched >>

FallbackCache(r) == \E redisError \in BOOLEAN : FallbackCacheWith(r, redisError)

\* Step 3 (lines 86-96).
Find(r) ==
  /\ pc[r] = "find"
  /\ LET existingTransaction == FindOne(KeyOf(r))
     IN  IF existingTransaction # NoLog
           THEN /\ result' = [result EXCEPT ![r] =
                                buildResponseFromLog(existingTransaction)]
                /\ pc' = [pc EXCEPT ![r] = "replay_cache"]
           ELSE /\ pc' = [pc EXCEPT ![r] = "tx_insert"]
                /\ UNCHANGED result
  /\ UNCHANGED << wallets, logs, rowLock, txLog, txWallets, cache, lease, req, answer,
                  attempt, held, initial, committed, firstDone, prior, touched,
                  redisUp >>

\* Lines 94-95.
ReplayCacheWith(r, redisError) ==
  /\ pc[r] = "replay_cache"
  /\ cache' = cacheResult(KeyOf(r), result[r], redisError)
  /\ redisUp' = IF redisError THEN redisUp ELSE redisUp \cup {r}
  /\ pc' = [pc EXCEPT ![r] = "release"]
  /\ UNCHANGED << wallets, logs, rowLock, txLog, txWallets, lease, req, answer,
                  attempt, held, result, initial, committed, firstDone, prior,
                  touched >>

ReplayCache(r) == \E redisError \in BOOLEAN : ReplayCacheWith(r, redisError)

(***************************************************************************)
(* Step 4: the ledger transaction (lines 101-209)                          *)
(***************************************************************************)
\* A ledger without the unique index on idempotencyKey.
UniqueViolationNoIndex(k) == FALSE

\* The unique index on idempotencyKey rejects a key some committed row has.
UniqueViolation(k) == \E l \in logs : l.idempotencyKey = k

\* The index makes an insert wait while another open transaction holds an
\* uncommitted row with the same key.
InsertMustWait(r, k) ==
  \E s \in Reqs \ {r} : txLog[s] # NoLog /\ txLog[s].idempotencyKey = k

\* Wallet updates issued outside the transaction survive its rollback.
RolledBackWalletsKept(r) ==
  [w \in Rows |-> IF txWallets[r][w] # NoWallet THEN txWallets[r][w]
                  ELSE wallets[w]]

\* What a rollback leaves in the wallets table.
RolledBackWallets(r) == wallets

\* A PENDING row inserted outside the transaction survives its rollback.
RolledBackLogsKept(r) ==
  IF txLog[r] # NoLog THEN logs \cup {txLog[r]} ELSE logs

\* What a rollback leaves in the transaction_logs table: the create of
\* lines 107-120 carries { transaction: t }, so its row goes.
RolledBackLogs(r) == logs

\* ROLLBACK of r's transaction: its insert, its writes and its row locks go.
Rollback(r) ==
  /\ txLog' = [txLog EXCEPT ![r] = NoLog]
  /\ txWallets' = [txWallets EXCEPT ![r] = NoWrites]
  /\ rowLock' = ReleaseRows(r)
  /\ held' = [held EXCEPT ![r] = NoHeld]
  /\ wallets' = RolledBackWallets(r)
  /\ logs' = RolledBackLogs(r)
  /\ touched' = IF wallets' # wallets THEN touched \cup {r} ELSE touched

\* The clock read for createdAt: later than the createdAt of every row
\* there is, committed or not.
Now ==
  LET rows == logs \cup {txLog[s] : s \in {u \in Reqs : txLog[u] # NoLog}}
  IN  IF rows = {} THEN 1
      ELSE 1 + (CHOOSE n \in {l.createdAt : l \in rows} :
                  \A l \in rows : l.createdAt <= n)

\* Lines 107-131: TransactionLog.create of the PENDING row.
TxInsert(r) ==
  /\ pc[r] = "tx_insert"
  /\ LET q == req[r]
         f == RowOf(q.fromWalletId)
         t == RowOf(q.toWalletId)
     IN  /\ q.amount.form = "decimal" => ~InsertMustWait(r, q.idempotencyKey)
         /\ IF \/ q.amount.form # "decimal"
               \/ KeyOctets(q.idempotencyKey) > MaxKeyOctets
              THEN \* the model's validators isDecimal and len refuse the
                   \* row before any statement is sent
                   /\ result' = [result EXCEPT ![r] =
                        TransferError(
                          IF q.amount.form # "decimal"
                            THEN Msg("Validation isDecimal on amount failed")
                            ELSE Msg("Validation len on idempotencyKey failed"),
                          500, "TRANSFER_FAILED")]
                   /\ pc' = [pc EXCEPT ![r] = "mark_failed"]
                   /\ Rollback(r)
            ELSE IF UniqueViolation(q.idempotencyKey)
              THEN /\ result' = [result EXCEPT ![r] =
                        TransferError(Msg("Duplicate request detected"), 409,
                                      "DUPLICATE_REQUEST")]
                   /\ pc' = [pc EXCEPT ![r] = "mark_failed"]
                   /\ Rollback(r)
            ELSE IF f \notin Rows \/ t \notin Rows
              THEN \* foreign keys fromWalletId, toWalletId -> wallets.id
                   /\ result' = [result EXCEPT ![r] =
                        TransferError(Msg("violates foreign key constraint"),
                                      500, "TRANSFER_FAILED")]
                   /\ pc' = [pc EXCEPT ![r] = "mark_failed"]
                   /\ Rollback(r)
            ELSE /\ CanKeyShare(r, f) /\ CanKeyShare(r, t)
                 /\ txLog' = [txLog EXCEPT ![r] =
                      [LogRow(r, f, t, AmountMoney(q.amount),
                              q.idempotencyKey) EXCEPT !.createdAt = Now]]
                 /\ rowLock' = [w \in Rows |->
                      IF w \in {f, t}
                        THEN [rowLock[w] EXCEPT !.ks = @ \cup {r}]
                        ELSE rowLock[w]]
                 /\ pc' = [pc EXCEPT ![r] = "tx_lock1"]
                 /\ UNCHANGED << wallets, logs, txWallets, held, result,
                                 touched >>
  /\ UNCHANGED << cache, lease, req, answer, attempt, initial, committed,
                  firstDone, prior,
                  redisUp >>

\* Wallet.findByPk(id, { lock: UPDATE }): the row under lock, or null.
LockRow(r, id, which, next) ==
  LET w == RowOf(id)
  IN  /\ IF w \in Rows
           THEN /\ CanLockForUpdate(r, w)
                /\ rowLock' = [rowLock EXCEPT ![w].fu = r]
                /\ held' = [held EXCEPT ![r][which] =
                              IF txWallets[r][w] # NoWallet
                                THEN txWallets[r][w] ELSE wallets[w]]
           ELSE /\ held' = [held EXCEPT ![r][which] = NoWallet]
                /\ UNCHANGED rowLock
      /\ pc' = [pc EXCEPT ![r] = next]
      /\ UNCHANGED << wallets, logs, txLog, txWallets, cache, lease, req, answer,
                      attempt, result, initial, committed, firstDone, prior,
                      touched,
                  redisUp >>

\* Lines 134-142.
TxLockFirst(r) ==
  /\ pc[r] = "tx_lock1"
  /\ LockRow(r, firstLockId(req[r]), "first", "tx_lock2")

\* Lines 144-147.
TxLockSecond(r) ==
  /\ pc[r] = "tx_lock2"
  /\ LockRow(r, secondLockId(req[r]), "second", "tx_exec")

\* The balance check left out.
InsufficientBalanceUnchecked(fromBalanceNum, amountNum) == FALSE

\* Line 160.
InsufficientBalance(fromBalanceNum, amountNum) ==
  FloatLess(fromBalanceNum, amountNum)

\* Lines 149-207: roles, checks, the two wallet updates and the log update,
\* all inside the transaction.
TxExecute(r) ==
  /\ pc[r] = "tx_exec"
  /\ LET q == req[r]
         fromWallet == IF q.fromWalletId = firstLockId(q)
                         THEN held[r].first ELSE held[r].second
         toWallet == IF q.toWalletId = firstLockId(q)
                       THEN held[r].first ELSE held[r].second
         fromBalanceNum == ParseFloat(fromWallet.balance)
         amountNum == ParseFloat(AmountMoney(q.amount))
         toBalanceNum == ParseFloat(toWallet.balance)
         newFromBalance == SubFixed(fromBalanceNum, amountNum)
         newToBalance == AddFixed(toBalanceNum, amountNum)
         afterFrom == [txWallets[r] EXCEPT ![RowOf(q.fromWalletId)] =
                         [balance |-> newFromBalance,
                          version |-> fromWallet.version + 1]]
         afterTo == [afterFrom EXCEPT ![RowOf(q.toWalletId)] =
                       [balance |-> newToBalance,
                        version |-> toWallet.version + 1]]
     IN  IF fromWallet = NoWallet \/ toWallet = NoWallet
           THEN /\ result' = [result EXCEPT ![r] =
                     TransferError(Msg("One or both wallets not found"), 404,
                                   "WALLET_NOT_FOUND")]
                /\ pc' = [pc EXCEPT ![r] = "mark_failed"]
                /\ Rollback(r)
         ELSE IF InsufficientBalance(fromBalanceNum, amountNum)
           THEN /\ result' = [result EXCEPT ![r] =
                     TransferError([text |-> "Insufficient balance",
                                    available |-> fromWallet.balance,
                                    required |-> AmountMoney(q.amount)],
                                   400, "INSUFFICIENT_BALANCE")]
                /\ pc' = [pc EXCEPT ![r] = "mark_failed"]
                /\ Rollback(r)
         ELSE /\ txWallets' = [txWallets EXCEPT ![r] = afterTo]
              /\ txLog' = [txLog EXCEPT ![r] =
                   [@ EXCEPT !.status = "SUCCESS",
                             !.metaKeys = @ \cup {"completedAt",
                                "fromBalanceAfter", "toBalanceAfter"},
                             !.fromBalanceAfter = newFromBalance,
                             !.toBalanceAfter = newToBalance]]
              /\ result' = [result EXCEPT ![r] =
                   Response(TRUE, txLog[r].id,
                            Msg("Transfer completed successfully"),
                            newFromBalance, newToBalance)]
              /\ pc' = [pc EXCEPT ![r] = "tx_commit"]
              /\ UNCHANGED << wallets, logs, rowLock, held, touched >>
  /\ UNCHANGED << cache, lease, req, answer, attempt, initial, committed,
                  firstDone, prior,
                  redisUp >>

\* The wallets table after r's balances are committed without the version
\* column of the two updates.
CommittedWalletsNoVersion(r) ==
  [w \in Rows |-> IF txWallets[r][w] # NoWallet
                    THEN [balance |-> txWallets[r][w].balance,
                          version |-> wallets[w].version]
                  ELSE wallets[w]]

\* The wallets table after r's writes are committed.
CommittedWallets(r) ==
  [w \in Rows |-> IF txWallets[r][w] # NoWallet THEN txWallets[r][w]
                  ELSE wallets[w]]

\* Line 209: COMMIT.
TxCommit(r) ==
  /\ pc[r] = "tx_commit"
  /\ wallets' = CommittedWallets(r)
  /\ logs' = logs \cup {txLog[r]}
  /\ txLog' = [txLog EXCEPT ![r] = NoLog]
  /\ txWallets' = [txWallets EXCEPT ![r] = NoWrites]
  /\ rowLock' = ReleaseRows(r)
  /\ held' = [held EXCEPT ![r] = NoHeld]
  /\ committed' = [committed EXCEPT ![KeyOf(r)] = @ \cup {r}]
  /\ touched' = IF wallets' # wallets THEN touched \cup {r} ELSE touched
  /\ pc' = [pc EXCEPT ![r] = "cache_put"]
  /\ UNCHANGED << cache, lease, req, answer, attempt, result, initial, firstDone,
                  prior,
                  redisUp >>

\* The wallet row r's transaction is asking a FOR UPDATE lock on, or NoId.
WantedRow(r) ==
  IF pc[r] = "tx_lock1" /\ RowOf(firstLockId(req[r])) \in Rows
    THEN RowOf(firstLockId(req[r]))
  ELSE IF pc[r] = "tx_lock2" /\ RowOf(secondLockId(req[r])) \in Rows
    THEN RowOf(secondLockId(req[r]))
  ELSE NoId

\* r's transaction waits for a row lock that s's transaction holds.
WaitsFor(r, s) ==
  /\ r # s
  /\ WantedRow(r) # NoId
  /\ \/ rowLock[WantedRow(r)].fu = s
     \/ s \in rowLock[WantedRow(r)].ks

\* r is on a cycle of waiting transactions; PostgreSQL's deadlock detector
\* ends one transaction of the cycle with "deadlock detected".
Deadlocked(r) ==
  \E s \in Reqs :
    /\ WaitsFor(r, s)
    /\ \/ WaitsFor(s, r)
       \/ \E m \in Reqs : WaitsFor(s, m) /\ WaitsFor(m, r)

\* A statement of the open transaction fails in the ledger (deadlock victim,
\* statement timeout, lost connection): sequelize.transaction rolls back and
\* rethrows; the catch block wraps the error as TRANSFER_FAILED.
TxFail(r) ==
  /\ pc[r] \in {"tx_lock1", "tx_lock2", "tx_exec", "tx_commit"}
  /\ \E cause \in {"deadlock detected", "database error"} :
       /\ cause = "deadlock detected" => Deadlocked(r)
       /\ result' = [result EXCEPT ![r] =
            TransferError(Msg(cause), 500, "TRANSFER_FAILED")]
  /\ pc' = [pc EXCEPT ![r] = "mark_failed"]
  /\ Rollback(r)
  /\ UNCHANGED << cache, lease, req, answer, attempt, initial, committed,
                  firstDone, prior,
                  redisUp >>

\* The process that runs r dies after it took the lease and before its
\* transaction committed: the finally block of lines 241-246 never runs, and
\* PostgreSQL rolls the open transaction back when the connection is lost.
\* At most one process is lost.
Crash(r) ==
  /\ pc[r] \in {"find", "tx_insert", "tx_lock1", "tx_lock2", "tx_exec",
               "tx_commit"}
  /\ \A s \in Reqs : pc[s] # "crashed"
  /\ pc' = [pc EXCEPT ![r] = "crashed"]
  /\ Rollback(r)
  /\ UNCHANGED << cache, lease, req, answer, attempt, result, initial,
                  committed, firstDone, prior, redisUp >>

(***************************************************************************)
(* Steps 5 and 6, and the error path                                       *)
(***************************************************************************)
\* Lines 214-227: the success response is written to the cache.
CachePutWith(r, redisError) ==
  /\ pc[r] = "cache_put"
  /\ cache' = cacheResult(KeyOf(r), result[r], redisError)
  /\ redisUp' = IF redisError THEN redisUp ELSE redisUp \cup {r}
  /\ pc' = [pc EXCEPT ![r] = "release"]
  /\ UNCHANGED << wallets, logs, rowLock, txLog, txWallets, lease, req, answer,
                  attempt, held, result, initial, committed, firstDone, prior,
                  touched >>

CachePut(r) == \E redisError \in BOOLEAN : CachePutWith(r, redisError)

\* The update of the status alone, without errorMessage.
markTransactionFailedNoMessage(k, errorMessage) ==
  { IF l.idempotencyKey = k
      THEN [l EXCEPT !.status = "FAILED",
                     !.metaKeys = @ \cup {"failedAt"}]
      ELSE l : l \in logs }

\* markTransactionFailed: UPDATE transaction_logs SET status = 'FAILED', ...
\* WHERE idempotencyKey = k, a statement of its own outside any transaction.
markTransactionFailed(k, errorMessage) ==
  { IF l.idempotencyKey = k
      THEN [l EXCEPT !.status = "FAILED",
                     !.errorMessage = errorMessage,
                     !.metaKeys = @ \cup {"failedAt"}]
      ELSE l : l \in logs }

\* Lines 228-240: the catch block; a failure of the update is only logged.
MarkFailed(r) ==
  /\ pc[r] = "mark_failed"
  /\ \E updateError \in BOOLEAN :
       logs' = IF updateError THEN logs
               ELSE markTransactionFailed(KeyOf(r), result[r].message)
  /\ pc' = [pc EXCEPT ![r] = "release"]
  /\ UNCHANGED << wallets, rowLock, txLog, txWallets, cache, lease, req, answer,
                  attempt, held, result, initial, committed, firstDone, prior,
                  touched,
                  redisUp >>

\* A release that never deletes the lease.
releaseLockNever(k, redisError) == lease

\* RedisService.releaseLock: DEL lock:{key}; errors are swallowed.
releaseLock(k, redisError) ==
  IF redisError THEN lease ELSE [lease EXCEPT ![k] = NoId]

\* The outcomes the executor itself produces for a key.
ExecutorOutcome(res) ==
  \/ res.message = Msg("Transfer completed successfully")
  \/ res.code \in {"INSUFFICIENT_BALANCE", "WALLET_NOT_FOUND"}

\* Lines 241-246: the finally block, then executeTransfer returns or throws;
\* redisError tells whether the DEL fails.
ReleaseWith(r, redisError) ==
  /\ pc[r] = "release"
  /\ lease' = releaseLock(KeyOf(r), redisError)
  /\ redisUp' = IF redisError THEN redisUp ELSE redisUp \cup {r}
  /\ pc' = [pc EXCEPT ![r] = "done"]
  /\ firstDone' = IF firstDone[KeyOf(r)] = NoResp /\ ExecutorOutcome(result[r])
                    THEN [firstDone EXCEPT ![KeyOf(r)] = result[r]]
                    ELSE firstDone
  /\ UNCHANGED << wallets, logs, rowLock, txLog, txWallets, cache, req, answer,
                  attempt, held, result, initial, committed, prior, touched >>

Release(r) == \E redisError \in BOOLEAN : ReleaseWith(r, redisError)

(***************************************************************************)
(* The query surface (lines 334-353)                                       *)
(***************************************************************************)
\* The wallet ids a query may carry: a row, a row spelled in upper case, a
\* uuid that names no row, and a text that is no uuid.
QueryIds == {"a", "B", "0", "x"}

\* PostgreSQL reads the parameter as a uuid; a text that is none fails the
\* statement with "invalid input syntax for type uuid".
IsUuid(t) == t \in Texts

RECURSIVE Latest(_, _)
\* ORDER BY createdAt DESC LIMIT n over the rows S.
Latest(S, n) ==
  IF S = {} \/ n = 0 THEN << >>
  ELSE LET l == CHOOSE m \in S : \A o \in S : o.createdAt <= m.createdAt
       IN  << l >> \o Latest(S \ {l}, n - 1)

\* Lines 334-340: Wallet.findByPk(walletId), a plain SELECT.
getWalletBalance(walletId) ==
  /\ answer' =
       IF ~IsUuid(walletId)
         THEN Answer("balance", walletId, "DATABASE_ERROR", NoMoney, << >>)
       ELSE IF RowOf(walletId) \notin Rows
         THEN Answer("balance", walletId, "WALLET_NOT_FOUND", NoMoney, << >>)
       ELSE Answer("balance", walletId, "", wallets[RowOf(walletId)].balance,
                   << >>)
  /\ UNCHANGED << wallets, logs, rowLock, txLog, txWallets, cache, lease, req,
                  pc, attempt, held, result, initial, committed, firstDone,
                  prior, touched, redisUp >>

\* Lines 342-353: TransactionLog.findAll, a plain SELECT.
getTransactionHistory(walletId) ==
  /\ answer' =
       IF ~IsUuid(walletId)
         THEN Answer("history", walletId, "DATABASE_ERROR", NoMoney, << >>)
       ELSE Answer("history", walletId, "", NoMoney,
                   Latest({l \in logs : \/ l.fromWalletId = RowOf(walletId)
                                        \/ l.toWalletId = RowOf(walletId)},
                          HistoryLimit))
  /\ UNCHANGED << wallets, logs, rowLock, txLog, txWallets, cache, lease, req,
                  pc, attempt, held, result, initial, committed, firstDone,
                  prior, touched, redisUp >>

Next ==
  \/ \E r \in Reqs : Begin(r)
  \/ \E r \in Reqs : CacheGet(r)
  \/ \E r \in Reqs : LockTry(r)
  \/ \E k \in Keys : LeaseExpire(k)
  \/ \E r \in Reqs : FallbackFind(r)
  \/ \E r \in Reqs : FallbackCache(r)
  \/ \E r \in Reqs : Find(r)
  \/ \E r \in Reqs : ReplayCache(r)
  \/ \E r \in Reqs : TxInsert(r)
  \/ \E r \in Reqs : TxLockFirst(r)
  \/ \E r \in Reqs : TxLockSecond(r)
  \/ \E r \in Reqs : TxExecute(r)
  \/ \E r \in Reqs : TxCommit(r)
  \/ \E r \in Reqs : TxFail(r)
  \/ \E r \in Reqs : CachePut(r)
  \/ \E r \in Reqs : MarkFailed(r)
  \/ \E r \in Reqs : Release(r)

Spec == Init /\ [][Next]_vars

\* Three requests that carry one and the same valid transfer.
SpecSameKey == InitSameKey /\ [][Next]_vars

\* The service with a Redis that answers every DEL of a lease; its other
\* calls may fail as before.
NextReleaseUp ==
  \/ \E r \in Reqs : Begin(r)
  \/ \E r \in Reqs : CacheGet(r)
  \/ \E r \in Reqs : LockTry(r)
  \/ \E k \in Keys : LeaseExpire(k)
  \/ \E r \in Reqs : FallbackFind(r)
  \/ \E r \in Reqs : FallbackCache(r)
  \/ \E r \in Reqs : Find(r)
  \/ \E r \in Reqs : ReplayCache(r)
  \/ \E r \in Reqs : TxInsert(r)
  \/ \E r \in Reqs : TxLockFirst(r)
  \/ \E r \in Reqs : TxLockSecond(r)
  \/ \E r \in Reqs : TxExecute(r)
  \/ \E r \in Reqs : TxCommit(r)
  \/ \E r \in Reqs : TxFail(r)
  \/ \E r \in Reqs : CachePut(r)
  \/ \E r \in Reqs : MarkFailed(r)
  \/ \E r \in Reqs : ReleaseWith(r, FALSE)

SpecReleaseUp == Init /\ [][NextReleaseUp]_vars

\* The service with a Redis that answers every call; leases may expire.
NextRedisUp ==
  \/ \E r \in Reqs : Begin(r)
  \/ \E r \in Reqs : CacheGetWith(r, FALSE)
  \/ \E r \in Reqs : LockTryWith(r, FALSE)
  \/ \E r \in Reqs : FallbackFind(r)
  \/ \E r \in Reqs : FallbackCacheWith(r, FALSE)
  \/ \E r \in Reqs : Find(r)
  \/ \E r \in Reqs : ReplayCacheWith(r, FALSE)
  \/ \E r \in Reqs : TxInsert(r)
  \/ \E r \in Reqs : TxLockFirst(r)
  \/ \E r \in Reqs : TxLockSecond(r)
  \/ \E r \in Reqs : TxExecute(r)
  \/ \E r \in Reqs : TxCommit(r)
  \/ \E r \in Reqs : TxFail(r)
  \/ \E r \in Reqs : CachePutWith(r, FALSE)
  \/ \E r \in Reqs : MarkFailed(r)
  \/ \E r \in Reqs : ReleaseWith(r, FALSE)
  \/ \E k \in Keys : LeaseExpire(k)

SpecRedisUp == Init /\ [][NextRedisUp]_vars

\* The service with a Redis that answers every call and transactions that
\* end before the TTL of their lease: no lease expires.
NextShielded ==
  \/ \E r \in Reqs : Begin(r)
  \/ \E r \in Reqs : CacheGetWith(r, FALSE)
  \/ \E r \in Reqs : LockTryWith(r, FALSE)
  \/ \E r \in Reqs : FallbackFind(r)
  \/ \E r \in Reqs : FallbackCacheWith(r, FALSE)
  \/ \E r \in Reqs : Find(r)
  \/ \E r \in Reqs : ReplayCacheWith(r, FALSE)
  \/ \E r \in Reqs : TxInsert(r)
  \/ \E r \in Reqs : TxLockFirst(r)
  \/ \E r \in Reqs : TxLockSecond(r)
  \/ \E r \in Reqs : TxExecute(r)
  \/ \E r \in Reqs : TxCommit(r)
  \/ \E r \in Reqs : TxFail(r)
  \/ \E r \in Reqs : CachePutWith(r, FALSE)
  \/ \E r \in Reqs : MarkFailed(r)
  \/ \E r \in Reqs : ReleaseWith(r, FALSE)

SpecShielded == Init /\ [][NextShielded]_vars

\* The service whose processes may die in the middle of a transfer.
NextCrash ==
  \/ \E r \in Reqs : Begin(r)
  \/ \E r \in Reqs : CacheGet(r)
  \/ \E r \in Reqs : LockTry(r)
  \/ \E k \in Keys : LeaseExpire(k)
  \/ \E r \in Reqs : FallbackFind(r)
  \/ \E r \in Reqs : FallbackCache(r)
  \/ \E r \in Reqs : Find(r)
  \/ \E r \in Reqs : ReplayCache(r)
  \/ \E r \in Reqs : TxInsert(r)
  \/ \E r \in Reqs : TxLockFirst(r)
  \/ \E r \in Reqs : TxLockSecond(r)
  \/ \E r \in Reqs : TxExecute(r)
  \/ \E r \in Reqs : TxCommit(r)
  \/ \E r \in Reqs : TxFail(r)
  \/ \E r \in Reqs : CachePut(r)
  \/ \E r \in Reqs : MarkFailed(r)
  \/ \E r \in Reqs : Release(r)
  \/ \E r \in Reqs : Crash(r)

\* Three requests with one and the same valid transfer; one process may die.
SpecCrash == InitSameKey /\ [][NextCrash]_vars

\* The steps of r that the running process takes by itself.
Step(r) ==
  \/ CacheGetWith(r, FALSE)
  \/ LockTryWith(r, FALSE)
  \/ FallbackFind(r)
  \/ FallbackCacheWith(r, FALSE)
  \/ Find(r)
  \/ ReplayCacheWith(r, FALSE)
  \/ TxInsert(r)
  \/ TxLockFirst(r)
  \/ TxLockSecond(r)
  \/ TxExecute(r)
  \/ TxCommit(r)
  \/ TxFail(r)
  \/ CachePutWith(r, FALSE)
  \/ MarkFailed(r)
  \/ ReleaseWith(r, FALSE)

NextCrashFair ==
  \/ \E r \in Reqs : Begin(r)
  \/ \E r \in Reqs : Step(r)
  \/ \E r \in Reqs : Crash(r)
  \/ \E k \in Keys : LeaseExpire(k)

\* A Redis that answers every call; one process may die; a process that is
\* not lost goes on with its request (the event loop runs every pending
\* continuation), and Redis drops a lease when its TTL has run out.
SpecCrashFair ==
  /\ InitSameKey
  /\ [][NextCrashFair]_vars
  /\ \A r \in Reqs : WF_vars(Step(r))
  /\ \A k \in Keys : WF_vars(LeaseExpire(k))

\* Two transfers with keys of their own and a refused request, with queries
\* at any moment.
QueryScenarios == { << LedgerSmall, << ReqY, ReqU, ReqS >> >> }

InitQuery == InitWith(QueryScenarios)

NextQuery ==
  \/ \E r \in Reqs : Begin(r)
  \/ \E r \in Reqs : CacheGet(r)
  \/ \E r \in Reqs : LockTry(r)
  \/ \E k \in Keys : LeaseExpire(k)
  \/ \E r \in Reqs : Find(r)
  \/ \E r \in Reqs : TxInsert(r)
  \/ \E r \in Reqs : TxLockFirst(r)
  \/ \E r \in Reqs : TxLockSecond(r)
  \/ \E r \in Reqs : TxExecute(r)
  \/ \E r \in Reqs : TxCommit(r)
  \/ \E r \in Reqs : TxFail(r)
  \/ \E r \in Reqs : CachePut(r)
  \/ \E r \in Reqs : MarkFailed(r)
  \/ \E r \in Reqs : Release(r)
  \/ \E walletId \in QueryIds : getWalletBalance(walletId)
  \/ \E walletId \in QueryIds : getTransactionHistory(walletId)

\* The transfers of QueryScenarios interleaved with queries.
SpecQuery == InitQuery /\ [][NextQuery]_vars

\* The validator alone, applied to every request of ValidatorInputs.
NextValidator == \E r \in Reqs : Begin(r)

SpecValidator == InitValidator /\ [][NextValidator]_vars

(***************************************************************************)
(* Properties                                                              *)
(***************************************************************************)
RECURSIVE SumOver(_, _)
\* The sum of f[x] over the finite set S.
SumOver(S, f) ==
  IF S = {} THEN 0
  ELSE LET x == CHOOSE y \in S : TRUE IN f[x] + SumOver(S \ {x}, f)

TotalHi(b) == SumOver(Rows, [w \in Rows |-> b[w].hi])

TotalLo(b) == SumOver(Rows, [w \in Rows |-> b[w].lo])

Balances == [w \in Rows |-> wallets[w].balance]

AllCommitted == UNION {committed[k] : k \in Keys}

Finished(r) == pc[r] = "done"

Failed(r) == Finished(r) /\ result[r].code # ""

\* C1 (Conservation): in every committed ledger state the sum of all wallet
\* balances equals the sum the wallets were created with.
C1_Conservation ==
  /\ TotalHi(Balances) = TotalHi(initial)
  /\ TotalLo(Balances) = TotalLo(initial)

\* C2 (At-most-once application): for every key at most one transaction ever
\* commits, so at most one SUCCESS log ever exists for it and at most one
\* debit/credit pair is applied; wallets change in no other way.
C2_AtMostOnce ==
  /\ \A k \in Keys : Cardinality(committed[k]) <= 1
  /\ \A k \in Keys :
       Cardinality({l \in logs : l.idempotencyKey = k /\ l.status = "SUCCESS"}) <= 1
  /\ touched \subseteq AllCommitted

\* A second request reached the insert of a key that had already committed.
C2_Witness ==
  \E r \in Reqs :
    /\ Finished(r)
    /\ result[r].code = "DUPLICATE_REQUEST"
    /\ committed[KeyOf(r)] # {}

\* C3 (Replay equivalence): a request that starts after SUCCESS was returned
\* for its key returns success with the same transactionId and the same
\* fromBalance and toBalance, and changes no wallet.
C3_ReplayEquivalence ==
  \A r \in Reqs :
    (Finished(r) /\ prior[r].success) =>
      /\ result[r].success
      /\ result[r].transactionId = prior[r].transactionId
      /\ result[r].fromBalance = prior[r].fromBalance
      /\ result[r].toBalance = prior[r].toBalance
      /\ r \notin touched

\* The rows a request names.
RowsOf(r) == {RowOf(req[r].fromWalletId), RowOf(req[r].toWalletId)}

\* C4 (Atomicity): a request that ends with an error has changed no wallet,
\* and every wallet's version counts exactly the committed transfers that
\* name it: a transfer's two updates are in the ledger together or not at all.
C4_Atomicity ==
  /\ \A r \in Reqs : Failed(r) => r \notin touched
  /\ \A w \in Rows :
       wallets[w].version =
         Cardinality({r \in AllCommitted : w \in RowsOf(r)})
  /\ \A r \in Reqs \ AllCommitted : r \notin touched

\* A transfer was refused for lack of funds after another one had committed.
C4_Witness ==
  \E r \in Reqs :
    /\ Finished(r)
    /\ result[r].code = "INSUFFICIENT_BALANCE"
    /\ AllCommitted # {}
    /\ r \notin touched

NonNegative(m) == m.hi >= 1 \/ (m.hi = 0 /\ m.lo >= 0)

\* C5 (Non-negativity): every committed wallet balance is >= 0.
C5_NonNegative == \A w \in Rows : NonNegative(wallets[w].balance)

\* A committed transfer took a wallet down to exactly 0.
C5_Witness ==
  \E w \in Rows : wallets[w].balance = Small(0) /\ wallets[w].version > 0

\* C6 (Key uniqueness): the ledger holds at most one log row per
\* idempotencyKey, whatever its status.
C6_KeyUnique ==
  \A l1, l2 \in logs : l1.idempotencyKey = l2.idempotencyKey => l1 = l2

\* Two requests with one key both reached the insert; one row exists.
C6_Witness ==
  \E r \in Reqs :
    /\ pc[r] = "mark_failed"
    /\ result[r].code = "DUPLICATE_REQUEST"
    /\ \E l \in logs : l.idempotencyKey = KeyOf(r) /\ l.id # r

InExecutor(r) == pc[r] \in {"tx_lock1", "tx_lock2", "tx_exec", "tx_commit"}

\* C7 (Same result per key): a request that starts after the executor has
\* returned a result for its key sees that result; after a failure it neither
\* executes the transfer again nor succeeds.
C7_SameResultPerKey ==
  \A r \in Reqs :
    prior[r] # NoResp =>
      /\ ~InExecutor(r)
      /\ r \notin AllCommitted
      /\ Finished(r) => result[r].success = prior[r].success

\* C8 (Failure is recorded): after a request failed inside the executor, the
\* ledger holds a FAILED log with its key and the thrown error's message.
C8_FailureRecorded ==
  \A r \in Reqs :
    (Finished(r) /\ result[r].code \in {"INSUFFICIENT_BALANCE", "WALLET_NOT_FOUND"}) =>
      \E l \in logs :
        /\ l.idempotencyKey = KeyOf(r)
        /\ l.status = "FAILED"
        /\ l.errorMessage = result[r].message

SuccessLogs == {l \in logs : l.status = "SUCCESS"}

Credits(w) ==
  SumOver({l \in SuccessLogs : l.toWalletId = w},
          [l \in SuccessLogs |-> l.amount.lo])

Debits(w) ==
  SumOver({l \in SuccessLogs : l.fromWalletId = w},
          [l \in SuccessLogs |-> l.amount.lo])

\* C9 (Ledger/log consistency): for every wallet, credits minus debits over
\* the SUCCESS logs equal its balance minus its initial balance.
C9_LedgerLogConsistency ==
  \A w \in Rows :
    /\ wallets[w].balance.hi = initial[w].hi
    /\ wallets[w].balance.lo - initial[w].lo = Credits(w) - Debits(w)

\* C10 (Log state machine): a log that is SUCCESS or FAILED keeps its status
\* in every later state.
C10_TerminalStatus ==
  [][\A l \in logs :
       l.status \in {"SUCCESS", "FAILED"} =>
         \E m \in logs' : m.id = l.id /\ m.status = l.status]_vars

\* Two transfers over the same two wallet rows in opposite directions, with
\* distinct keys.
Opposite(r, s) ==
  /\ KeyOf(r) # KeyOf(s)
  /\ RowOf(req[r].fromWalletId) = RowOf(req[s].toWalletId)
  /\ RowOf(req[r].toWalletId) = RowOf(req[s].fromWalletId)
  /\ RowOf(req[r].fromWalletId) # RowOf(req[r].toWalletId)

\* C11 (Deadlock freedom): no reachable state has two opposite transfers
\* with distinct keys each waiting for a row lock the other one holds.
C11_DeadlockFree ==
  \A r, s \in Reqs :
    Opposite(r, s) => ~(WaitsFor(r, s) /\ WaitsFor(s, r))

\* Two identical requests with one key have both returned, nothing else has
\* run, and the ledger answered every statement of both.
Duo(r, s) ==
  /\ r # s
  /\ req[r] = req[s]
  /\ Finished(r) /\ Finished(s)
  /\ \A m \in Reqs \ {r, s} : pc[m] = "init"
  /\ result[r].code # "TRANSFER_FAILED" /\ result[s].code # "TRANSFER_FAILED"

\* Response y repeats response x of the transfer that was applied.
Equivalent(x, y) ==
  /\ x.success /\ y.success
  /\ y.transactionId = x.transactionId
  /\ y.fromBalance = x.fromBalance
  /\ y.toBalance = x.toBalance

\* What both readings of C12 say about the ledger after the two requests.
DuoLedger(r) ==
  LET k == KeyOf(r)
      f == RowOf(req[r].fromWalletId)
  IN  /\ Cardinality(committed[k]) = 1
      /\ touched \subseteq committed[k]
      /\ Cardinality({l \in logs : l.idempotencyKey = k}) = 1
      /\ wallets[f].balance =
           Money(initial[f].hi, initial[f].lo - req[r].amount.lo)

Contended(r, s) ==
  /\ r # s
  /\ KeyOf(r) # KeyOf(s)
  /\ RowOf(req[r].fromWalletId) = RowOf(req[s].fromWalletId)
  /\ RowOf(req[r].fromWalletId) \notin {RowOf(req[r].toWalletId),
                                        RowOf(req[s].toWalletId)}
  /\ Finished(r) /\ Finished(s)
  /\ \A m \in Reqs \ {r, s} : pc[m] = "init"
  /\ result[r].message # Msg("database error")
  /\ result[s].message # Msg("database error")

\* The amount a finished request took from its source, going by its reply.
Taken(r) == IF result[r].success THEN req[r].amount.lo ELSE 0

\* C13 (No lost update on a contended source): after concurrent transfers
\* with distinct keys from one wallet, its balance is the initial balance
\* minus the amounts of the transfers that returned success, and every other
\* transfer failed with INSUFFICIENT_BALANCE.
C13_NoLostUpdate ==
  \A r, s \in Reqs :
    Contended(r, s) =>
      LET f == RowOf(req[r].fromWalletId)
      IN  /\ wallets[f].balance =
               Money(initial[f].hi, initial[f].lo - Taken(r) - Taken(s))
          /\ result[r].success \/ result[r].code = "INSUFFICIENT_BALANCE"
          /\ result[s].success \/ result[s].code = "INSUFFICIENT_BALANCE"

\* r has returned after its transaction reached the PENDING insert, and the
\* ledger itself did not fail under it.
ReachedInsert(r) ==
  /\ Finished(r)
  /\ \/ result[r].message = Msg("Transfer completed successfully")
     \/ result[r].code \in {"DUPLICATE_REQUEST", "INSUFFICIENT_BALANCE",
                            "WALLET_NOT_FOUND"}

\* C14 (Tier 3, durable uniqueness): of two concurrent identical requests
\* that both reached the PENDING insert, exactly one commits; the other gets
\* DUPLICATE_REQUEST (409) and changes no wallet.
C14_DurableUniqueness ==
  \A r, s \in Reqs :
    ( /\ r # s /\ req[r] = req[s]
      /\ prior[r] = NoResp /\ prior[s] = NoResp
      /\ ReachedInsert(r) /\ ReachedInsert(s) ) =>
        \E w \in {r, s} :
          LET l == CHOOSE m \in {r, s} : m # w
          IN  /\ committed[KeyOf(r)] = {w}
              /\ result[l].code = "DUPLICATE_REQUEST"
              /\ result[l].statusCode = 409
              /\ l \notin touched

\* r has returned and every Redis call it made had failed.
Degraded(r) ==
  /\ Finished(r)
  /\ r \notin redisUp
  /\ validateTransferRequest(req[r]) = NoResp

\* r's reply is the result of its own committed transaction.
OwnCommit(r) ==
  /\ result[r].success
  /\ result[r].message = Msg("Transfer completed successfully")
  /\ r \in committed[KeyOf(r)]
  /\ \E l \in logs :
       /\ l.id = r /\ l.idempotencyKey = KeyOf(r)
       /\ l.fromBalanceAfter = result[r].fromBalance
       /\ l.toBalanceAfter = result[r].toBalance

\* r's reply was built from the ledger's log row of its key.
LedgerReplay(r) ==
  /\ r \notin touched
  /\ result[r].code = ""
  /\ \E l \in logs :
       /\ l.idempotencyKey = KeyOf(r) /\ l.id # r
       /\ result[r].transactionId = l.id
       /\ result[r].success =>
            /\ result[r].fromBalance = l.fromBalanceAfter
            /\ result[r].toBalance = l.toBalanceAfter

\* r's request was refused by the ledger transaction.
LedgerRefusal(r) ==
  /\ r \notin touched
  /\ result[r].code \in {"INSUFFICIENT_BALANCE", "WALLET_NOT_FOUND",
                         "DUPLICATE_REQUEST", "TRANSFER_FAILED"}

\* C15 (Degraded mode): a request whose cache and lease calls all failed
\* still gets the outcome the ledger decides: its own committed transfer, the
\* replay of the key's log, or the ledger's refusal; never a cache or lease
\* failure, and a first request for a key is never answered by a replay.
C15_DegradedMode ==
  \A r \in Reqs :
    Degraded(r) =>
      /\ OwnCommit(r) \/ LedgerReplay(r) \/ LedgerRefusal(r)
      /\ (\A s \in Reqs \ {r} : KeyOf(s) = KeyOf(r) => pc[s] = "init")
            => OwnCommit(r) \/ LedgerRefusal(r)

\* A transfer committed although every Redis call of its request failed.
C15_Witness ==
  \E r \in Reqs : Degraded(r) /\ OwnCommit(r) /\ cache[KeyOf(r)] = NoResp

\* The step of r that leaves position p.
Leaves(r, p) == pc[r] = p /\ pc'[r] # p

\* C16 (Lease-loss fallback): a request is on the fallback path only after
\* MaxLockAttempts attempts, each refused because the lease was held; there
\* it returns the result of the key's log row, if the ledger has one, and
\* writes it to the cache (unless Redis fails), and otherwise fails with
\* CONCURRENT_PROCESSING (409).
C16_LeaseLossFallback ==
  [][\A r \in Reqs :
       /\ pc'[r] \in {"fb_find", "fb_cache"} => attempt'[r] = MaxLockAttempts
       /\ attempt'[r] # attempt[r] => lease[KeyOf(r)] \notin {NoId, r}
       /\ Leaves(r, "fb_find") =>
            IF \E l \in logs : l.idempotencyKey = KeyOf(r)
              THEN /\ pc'[r] = "fb_cache"
                   /\ \E l \in logs :
                        /\ l.idempotencyKey = KeyOf(r)
                        /\ l.status \in {"SUCCESS", "FAILED"}
                        /\ result'[r].code = ""
                        /\ result'[r].transactionId = l.id
                        /\ result'[r].success = (l.status = "SUCCESS")
                        /\ result'[r].fromBalance =
                             IF l.status = "SUCCESS" THEN l.fromBalanceAfter
                             ELSE NoMoney
                        /\ result'[r].toBalance =
                             IF l.status = "SUCCESS" THEN l.toBalanceAfter
                             ELSE NoMoney
              ELSE /\ pc'[r] = "done"
                   /\ result'[r].code = "CONCURRENT_PROCESSING"
                   /\ result'[r].statusCode = 409
       /\ Leaves(r, "fb_cache") =>
            /\ pc'[r] = "done"
            /\ result'[r] = result[r]
            /\ cache'[KeyOf(r)] \in {result[r], cache[KeyOf(r)]}
            /\ r \in redisUp' \ redisUp => cache'[KeyOf(r)] = result[r]
            /\ UNCHANGED << wallets, logs, lease >>]_vars

\* A request gave up on the lease, found the key's log and cached its result.
C16_Witness ==
  \E r \in Reqs :
    /\ Finished(r)
    /\ attempt[r] = MaxLockAttempts
    /\ result[r].code = ""
    /\ cache[KeyOf(r)] = result[r]

\* C17 (Distinct wallets): every log row, committed or still inside its
\* transaction, names two different wallet rows.
C17_DistinctWallets ==
  /\ \A l \in logs : l.fromWalletId # l.toWalletId
  /\ \A r \in Reqs :
       txLog[r] # NoLog => txLog[r].fromWalletId # txLog[r].toWalletId

\* r is the only request of its key that has started.
FreshKey(r) ==
  \A s \in Reqs \ {r} : KeyOf(s) = KeyOf(r) => pc[s] = "init"

\* r's request passes the validator and names a wallet that has no row.
MissingWallet(r) ==
  /\ validateTransferRequest(req[r]) = NoResp
  /\ \/ RowOf(req[r].fromWalletId) \notin Rows
     \/ RowOf(req[r].toWalletId) \notin Rows

\* C18 (Missing wallet): a well-formed transfer with a fresh key that names a
\* wallet without a row fails with WALLET_NOT_FOUND (404) and changes no
\* balance.
C18_MissingWallet ==
  \A r \in Reqs :
    (Finished(r) /\ FreshKey(r) /\ MissingWallet(r)) =>
      /\ result[r].code = "WALLET_NOT_FOUND"
      /\ result[r].statusCode = 404
      /\ r \notin touched

\* The source wallet as r's transaction read it under the row lock.
LockedSource(r) ==
  IF req[r].fromWalletId = firstLockId(req[r])
    THEN held[r].first ELSE held[r].second

\* x < y on DECIMAL(19,4) values.
DecimalLess(x, y) == x.hi < y.hi \/ (x.hi = y.hi /\ x.lo < y.lo)

\* C19 (Balance check boundary): with both wallets present, the executor
\* throws INSUFFICIENT_BALANCE (400) exactly when the source balance read
\* under the row lock is less than the amount, and a transfer of the whole
\* balance goes through and leaves the source at 0.
C19_BalanceBoundary ==
  [][\A r \in Reqs :
       ( /\ Leaves(r, "tx_exec")
         /\ held[r].first # NoWallet /\ held[r].second # NoWallet
         /\ RowOf(req[r].fromWalletId) # RowOf(req[r].toWalletId)
         /\ result'[r].code # "TRANSFER_FAILED" ) =>
           LET balance == LockedSource(r).balance
               amount == AmountMoney(req[r].amount)
               source == RowOf(req[r].fromWalletId)
           IN  /\ DecimalLess(balance, amount) <=>
                    /\ result'[r].code = "INSUFFICIENT_BALANCE"
                    /\ result'[r].statusCode = 400
               /\ balance = amount =>
                    /\ pc'[r] = "tx_commit"
                    /\ txWallets'[r][source].balance = Small(0)]_vars

\* The error codes C20 gives for the defects of request q.
Defects(q) ==
  LET a == q.amount
      numeral == a.form = "decimal"
  IN  (IF \/ q.fromWalletId = "" \/ q.toWalletId = ""
          \/ a.form = "empty" \/ q.idempotencyKey = ""
         THEN {"INVALID_REQUEST"} ELSE {})
      \cup (IF q.fromWalletId = q.toWalletId
              THEN {"SAME_WALLET_TRANSFER"} ELSE {})
      \cup (IF \/ ~numeral
               \/ a.hi < 0
               \/ a.hi = 0 /\ a.lo < 0
               \/ a.hi = 0 /\ a.lo = 0 /\ a.frac = 0
              THEN {"INVALID_AMOUNT"} ELSE {})
      \cup (IF numeral /\ a.hi = 0 /\ a.lo = 0 /\ a.frac > 0
              THEN {"AMOUNT_TOO_SMALL"} ELSE {})
      \cup (IF q.fromWalletId \notin Texts \/ q.toWalletId \notin Texts
              THEN {"INVALID_WALLET_ID"} ELSE {})

\* C20 (Validator categories): validateTransferRequest accepts exactly the
\* requests without a defect, and rejects a request with status 400 and the
\* code of a defect it has.
C20_ValidatorCategories ==
  \A r \in Reqs :
    pc[r] # "init" =>
      IF Defects(req[r]) = {}
        THEN pc[r] # "done"
        ELSE /\ pc[r] = "done"
             /\ result[r].code \in Defects(req[r])
             /\ result[r].statusCode = 400

\* C21 (Key length): a request whose idempotencyKey is longer than 255
\* octets is rejected by the validator (400; INVALID_REQUEST when the key is
\* its only defect) and goes no further.
C21_KeyLength ==
  \A r \in Reqs :
    (pc[r] # "init" /\ KeyOctets(req[r].idempotencyKey) > MaxKeyOctets) =>
      /\ pc[r] = "done"
      /\ result[r].statusCode = 400
      /\ Defects(req[r]) = {} => result[r].code = "INVALID_REQUEST"

\* A request the validator refuses.
Rejected(r) == validateTransferRequest(req[r]) # NoResp

\* C22 (Validation is fail-fast): a request the validator refuses ends in
\* its first step with the validator's error; it never reaches the cache
\* read, the lease, the ledger lookup or the transaction, and its step leaves
\* cache, lease, wallets, logs and row locks as they were.
C22_FailFast ==
  [][\A r \in Reqs :
       Rejected(r) =>
         /\ pc'[r] \in {"init", "done"}
         /\ Leaves(r, "init") =>
              /\ result'[r] = validateTransferRequest(req[r])
              /\ UNCHANGED << wallets, logs, rowLock, txLog, txWallets,
                              cache, lease, held, attempt, redisUp, touched,
                              committed >>]_vars

\* A refused request has ended while another request holds the lease and
\* both wallet rows inside its transaction.
C22_Witness ==
  \E r, s \in Reqs :
    /\ Rejected(r) /\ pc[r] = "done"
    /\ result[r].code = "SAME_WALLET_TRANSFER"
    /\ r \notin redisUp
    /\ pc[s] = "tx_exec" /\ lease[KeyOf(s)] = s

\* C23 (Fixed-point exactness): a committed transfer between two wallets of
\* an amount the source covers leaves the source with exactly its balance minus the amount and the
\* destination with exactly its balance plus the amount, in ticks of 0.0001.
C23_FixedPointExact ==
  [][\A r \in Reqs :
       LET f == RowOf(req[r].fromWalletId)
           t == RowOf(req[r].toWalletId)
           a == AmountMoney(req[r].amount)
       IN  (/\ Leaves(r, "tx_commit") /\ pc'[r] = "cache_put" /\ f # t
            /\ ~DecimalLess(wallets[f].balance, a)) =>
             /\ wallets'[f].balance =
                  Money(wallets[f].balance.hi - a.hi,
                        wallets[f].balance.lo - a.lo)
             /\ wallets'[t].balance =
                  Money(wallets[t].balance.hi + a.hi,
                        wallets[t].balance.lo + a.lo)]_vars

\* r is answered in this step by the cache or by the ledger lookup.
Replayed(r) ==
  \/ Leaves(r, "cache_get") /\ pc'[r] = "done"
  \/ Leaves(r, "find") /\ pc'[r] = "replay_cache"
  \/ Leaves(r, "fb_find") /\ pc'[r] = "fb_cache"

\* C24 (Failed replay): a request answered by the cache or by the ledger
\* lookup while the log of its key has status FAILED gets success = false,
\* the message "Transfer previously failed" and no balances.
C24_FailedReplay ==
  [][\A r \in Reqs :
       (Replayed(r) /\ FindOne(KeyOf(r)).status = "FAILED") =>
         /\ result'[r].success = FALSE
         /\ result'[r].message = Msg("Transfer previously failed")
         /\ result'[r].fromBalance = NoMoney
         /\ result'[r].toBalance = NoMoney]_vars

\* C25 (Version): a wallet's version never decreases; it changes only in the
\* commit of a transfer that names the wallet, and then by exactly 1; every
\* commit that names a wallet, and every change of a committed balance,
\* raises the wallet's version by exactly 1.
C25_Version ==
  [][\A w \in Rows :
       LET commits == {r \in Reqs : /\ Leaves(r, "tx_commit")
                                    /\ pc'[r] = "cache_put"
                                    /\ w \in RowsOf(r)}
       IN  /\ wallets'[w].version >= wallets[w].version
           /\ wallets'[w].version # wallets[w].version => commits # {}
           /\ commits # {} => wallets'[w].version = wallets[w].version + 1
           /\ wallets'[w].balance # wallets[w].balance =>
                wallets'[w].version = wallets[w].version + 1]_vars

\* Two transfers were committed on wallet a, whose version is 2, and another
\* request has ended with an error.
C25_Witness ==
  /\ wallets["a"].version = 2
  /\ Cardinality({r \in AllCommitted : "a" \in RowsOf(r)}) = 2
  /\ \E r \in Reqs : Failed(r)

\* C26 (Log metadata invariant): every committed log with status SUCCESS
\* has completedAt and the post-trade balances in its metadata, every
\* committed log with status FAILED has an errorMessage, and only FAILED logs
\* have one.
C26_LogMetadata ==
  \A l \in logs :
    /\ l.status = "SUCCESS" =>
         /\ {"completedAt", "fromBalanceAfter", "toBalanceAfter"}
              \subseteq l.metaKeys
         /\ l.fromBalanceAfter # NoMoney
         /\ l.toBalanceAfter # NoMoney
    /\ l.status = "FAILED" => l.errorMessage # NoMsg
    /\ l.errorMessage # NoMsg => l.status = "FAILED"

\* The ledger holds a SUCCESS log and a FAILED log written by the recorder.
C26_Witness ==
  /\ \E l \in logs : l.status = "SUCCESS" /\ "completedAt" \in l.metaKeys
  /\ \E l \in logs :
       /\ l.status = "FAILED"
       /\ l.errorMessage # NoMsg
       /\ "failedAt" \in l.metaKeys

\* The step is a query that returned or threw.
Queried == answer' # answer

\* The committed logs in which wallet row w is source or destination.
LogsOf(w) == {l \in logs : l.fromWalletId = w \/ l.toWalletId = w}

\* C27 (Query surface): a query changes no wallet, log, cache entry, lease
\* or row lock; getWalletBalance returns the committed balance of the wallet
\* or fails with WALLET_NOT_FOUND; getTransactionHistory returns the most
\* recent logs by createdAt, newest first and at most the limit, among the
\* committed logs of any status in which the wallet is source or destination.
C27_QuerySurface ==
  [][Queried =>
       LET w == RowOf(answer'.walletId)
           h == answer'.logs
       IN  /\ UNCHANGED << wallets, logs, rowLock, txLog, txWallets, cache,
                           lease, held, pc, result >>
           /\ answer'.op = "balance" =>
                IF w \in Rows
                  THEN /\ answer'.code = ""
                       /\ answer'.balance = wallets[w].balance
                  ELSE answer'.code = "WALLET_NOT_FOUND"
           /\ answer'.op = "history" =>
                /\ answer'.code = ""
                /\ Len(h) <= HistoryLimit
                /\ Len(h) = HistoryLimit \/ Len(h) = Cardinality(LogsOf(w))
                /\ \A i \in 1..Len(h) : h[i] \in LogsOf(w)
                /\ \A i, j \in 1..Len(h) :
                     i < j => h[i].createdAt >= h[j].createdAt
                /\ \A l \in LogsOf(w) :
                     \/ \E i \in 1..Len(h) : h[i] = l
                     \/ \A i \in 1..Len(h) : l.createdAt <= h[i].createdAt
     ]_vars

\* r's transaction has asked for its first wallet row lock.
AsksLocks(r) == pc[r] \in {"tx_lock1", "tx_lock2", "tx_exec", "tx_commit"}

\* C28 (Global lock order): two transfers that touch the same two wallet
\* rows ask for the row locks in the same order, whatever their direction and
\* the letter case of their ids, and no transfer waits for the lower row
\* while it holds the lock of the higher one.
C28_GlobalLockOrder ==
  /\ \A r, s \in Reqs :
       (/\ AsksLocks(r) /\ AsksLocks(s)
        /\ RowsOf(r) = RowsOf(s) /\ RowsOf(r) = Rows) =>
         RowOf(firstLockId(req[r])) = RowOf(firstLockId(req[s]))
  /\ \A r \in Reqs :
       LET first == RowOf(firstLockId(req[r]))
           second == RowOf(secondLockId(req[r]))
       IN  (/\ pc[r] = "tx_lock2" /\ first \in Rows /\ second \in Rows
            /\ rowLock[first].fu = r) =>
             ~JsLess(second, first)

\* C29 (Failure Recorder is skipped for duplicates): the catch block of a
\* request that ends with DUPLICATE_REQUEST leaves the committed logs, the
\* log of its key among them, as they were.
C29_RecorderSkipsDuplicates ==
  [][\A r \in Reqs :
       (Leaves(r, "mark_failed") /\ result[r].code = "DUPLICATE_REQUEST") =>
         logs' = logs]_vars

\* The positions of executeTransfer after acquireLockWithRetry returned
\* true, up to the finally block.
AfterAcquire ==
  {"find", "replay_cache", "tx_insert", "tx_lock1", "tx_lock2", "tx_exec",
   "tx_commit", "cache_put", "mark_failed", "release"}

\* C30 (Lease release on every exit): a request that acquired the lease
\* leaves executeTransfer only through the release of lock:k, whether it
\* committed, replayed an existing log or threw; with a Redis that answers
\* the release, the lease of k is free after it, no other lease is changed
\* by it, and no finished request holds a lease.
C30_ReleaseOnExit ==
  /\ [][\A r \in Reqs :
          (pc[r] \in AfterAcquire /\ pc'[r] \notin AfterAcquire) =>
            /\ pc[r] = "release" /\ pc'[r] = "done"
            /\ lease' = [lease EXCEPT ![KeyOf(r)] = NoId]]_vars
  /\ [](\A r \in Reqs : pc[r] = "done" => lease[KeyOf(r)] # r)

\* With every lease free, one request has returned a committed transfer,
\* one has thrown out of the transaction after another one had acquired and
\* released the same lease, and one has replayed the log it found after it
\* acquired the lease.
C30_Witness ==
  /\ \A k \in Keys : lease[k] = NoId
  /\ \E r, s, u \in Reqs :
       /\ pc[r] = "done" /\ pc[s] = "done" /\ pc[u] = "done"
       /\ result[r].message = Msg("Transfer completed successfully")
       /\ result[s].message =
            Msg("Transfer already processed (idempotent request)")
       /\ attempt[s] = 0
       /\ result[u].code \in {"INSUFFICIENT_BALANCE", "TRANSFER_FAILED"}

\* r is between its acquire of the lease and its release.
InSection(r) == pc[r] \in AfterAcquire

\* C31 (Lease mutual exclusion): with a Redis that answers every call, no
\* two requests with the same key are at the same time between the acquire
\* of the lease and its release.
C31_LeaseMutualExclusion ==
  \A r, s \in Reqs :
    (r # s /\ KeyOf(r) = KeyOf(s)) => ~(InSection(r) /\ InSection(s))

\* C32 (Lease ownership on release): the release step of a request deletes
\* no lease that another request holds.
C32_ReleaseOwnLease ==
  [][\A r \in Reqs :
       (Leaves(r, "release") /\ lease[KeyOf(r)] \notin {NoId, r}) =>
         lease'[KeyOf(r)] = lease[KeyOf(r)]]_vars

\* The order of the steps of a transfer that commits.
Pipeline ==
  << "init", "cache_get", "lock", "find", "tx_insert", "tx_lock1", "tx_lock2",
     "tx_exec", "tx_commit", "cache_put", "release", "done" >>

\* The place of position p in the pipeline, or 0.
StepNo(p) ==
  IF \E i \in 1..Len(Pipeline) : Pipeline[i] = p
    THEN CHOOSE i \in 1..Len(Pipeline) : Pipeline[i] = p
    ELSE 0

\* r returns the commit of its own transfer.
OwnSuccess(r) ==
  /\ result[r].message = Msg("Transfer completed successfully")
  /\ result[r].transactionId = r

\* C33 (Pipeline order): a request moves along validation, cache lookup,
\* lease acquire, ledger lookup, the transaction with its commit, cache
\* store and lease release, one position at a time and never back; its log
\* is committed by the commit step only; the cache store writes its result
\* under its key while the leases stay as they are, and at its release the
\* cache holds a result of its transfer.
C33_PipelineOrder ==
  [][\A r \in Reqs :
       /\ (/\ pc'[r] \notin {pc[r], "done"}
           /\ StepNo(pc[r]) # 0 /\ StepNo(pc'[r]) # 0) =>
            StepNo(pc'[r]) = StepNo(pc[r]) + 1
       /\ (Leaves(r, "release") /\ OwnSuccess(r)) => pc'[r] = "done"
       /\ (pc'[r] = "done" /\ pc[r] # "done" /\ result'[r].transactionId = r)
            => pc[r] = "release" /\ OwnSuccess(r)
       /\ pc'[r] \in {"cache_put", "tx_commit"} => StepNo(pc[r]) # 0
       /\ ((\E l \in logs' : l.id = r) /\ ~(\E l \in logs : l.id = r)) =>
            Leaves(r, "tx_commit") /\ pc'[r] = "cache_put"
       /\ Leaves(r, "cache_put") =>
            /\ pc'[r] = "release"
            /\ r \in committed[KeyOf(r)]
            /\ OwnSuccess(r)
            /\ cache'[KeyOf(r)] = result[r]
            /\ lease' = lease
       /\ (Leaves(r, "release") /\ OwnSuccess(r)) =>
            cache[KeyOf(r)].transactionId = r]_vars

\* A request has returned its own committed transfer and the cache holds it.
C33_Witness ==
  \E r \in Reqs :
    /\ pc[r] = "done" /\ OwnSuccess(r)
    /\ cache[KeyOf(r)] = result[r]
    /\ lease[KeyOf(r)] = NoId


\* The cached result of k matches a committed log of k.
CacheAgrees(k) ==
  \E l \in logs :
    /\ l.idempotencyKey = k
    /\ l.id = cache[k].transactionId
    /\ cache[k].success = (l.status = "SUCCESS")

\* C34 (cache agrees with the ledger): in every reachable state a cached
\* result for key k names a committed log of k by its transactionId, and its
\* success flag is true exactly when that log has status SUCCESS.
C34_CacheAgreesWithLedger ==
  \A k \in DOMAIN cache : cache[k] # NoResp => CacheAgrees(k)

\* r has an open ledger transaction.
InTransaction(r) == pc[r] \in {"tx_lock1", "tx_lock2", "tx_exec", "tx_commit"}

\* C35 (no visible PENDING): whatever fails, and whichever process dies,
\* between the PENDING insert and the commit, the committed ledger never
\* holds a log with status PENDING, a request whose transaction has ended
\* keeps no uncommitted row, and no request is ever answered from a PENDING
\* log.
C35_NoVisiblePending ==
  /\ \A l \in logs : l.status # "PENDING"
  /\ \A r \in Reqs : txLog[r] # NoLog => InTransaction(r)
  /\ \A r \in Reqs : result[r].message # Msg("Transfer is being processed")
  /\ \A k \in Keys : FindOne(k) # NoLog => FindOne(k).status # "PENDING"

\* One process died, another request failed inside its transaction, and a
\* third one of the same key then carried the transfer out itself.
C35_Witness ==
  \E r, s, u \in Reqs :
    /\ KeyOf(r) = KeyOf(s) /\ KeyOf(s) = KeyOf(u)
    /\ pc[r] = "crashed"
    /\ pc[s] = "done" /\ result[s].message = Msg("database error")
    /\ pc[u] = "done" /\ result[u].success /\ result[u].transactionId = u
    /\ logs # {}

\* C36 (bounded lease acquisition): acquireLockWithRetry makes at most
\* MaxLockAttempts attempts; an attempt that finds the lease free, or meets
\* a Redis error, ends it with true at once; every refused attempt found the
\* lease held, and it ends with false exactly at the MaxLockAttempts-th
\* refusal in a row.
C36_BoundedAcquisition ==
  /\ [][\A r \in Reqs :
          /\ (pc[r] = "lock" /\ lease[KeyOf(r)] = NoId
                /\ (pc'[r] # "lock" \/ attempt'[r] # attempt[r])) =>
               /\ pc'[r] = "find"
               /\ attempt'[r] = attempt[r]
               /\ lease'[KeyOf(r)] \in {r, NoId}
          /\ (Leaves(r, "lock") /\ pc'[r] = "find"
                /\ lease[KeyOf(r)] # NoId) =>
               /\ lease' = lease
               /\ r \notin redisUp' \ redisUp
          /\ Leaves(r, "lock") => pc'[r] \in {"find", "fb_find"}
          /\ pc'[r] = "find" /\ pc[r] # "find" => pc[r] = "lock"
          /\ pc'[r] = "fb_find" /\ pc[r] # "fb_find" =>
               /\ pc[r] = "lock"
               /\ attempt'[r] = MaxLockAttempts
          /\ attempt'[r] # attempt[r] =>
               /\ pc[r] = "lock"
               /\ attempt'[r] = attempt[r] + 1
               /\ lease[KeyOf(r)] \notin {NoId, r}
               /\ lease' = lease
               /\ pc'[r] = IF attempt'[r] = MaxLockAttempts THEN "fb_find"
                           ELSE "lock"]_vars
  /\ [](\A r \in Reqs :
          /\ attempt[r] \in 0..MaxLockAttempts
          /\ pc[r] = "lock" => attempt[r] < MaxLockAttempts
          /\ pc[r] = "init" => attempt[r] = 0)

\* One request was refused MaxLockAttempts times and gave up; another was
\* refused once and then took the lease.
C36_Witness ==
  \E r, s \in Reqs :
    /\ pc[r] = "done"
    /\ attempt[r] = MaxLockAttempts
    /\ result[r].code = "CONCURRENT_PROCESSING"
    /\ pc[s] = "find"
    /\ attempt[s] = 1
    /\ lease[KeyOf(s)] = s

\* The process that ran r is lost.
Lost(r) == pc[r] = "crashed"

\* C37 (recovery after process loss): a lost process leaves no uncommitted
\* row, no row lock, no wallet change and no log; the lease it held
\* eventually goes; a later request of its key that asks for the lease when
\* it is gone, and nobody else is under way, takes it and runs to a result
\* of the ledger section.
C37_Recovery ==
  /\ [](\A r \in Reqs :
          Lost(r) =>
            /\ txLog[r] = NoLog
            /\ txWallets[r] = NoWrites
            /\ \A w \in Rows : rowLock[w].fu # r /\ r \notin rowLock[w].ks
            /\ r \notin touched
            /\ \A l \in logs : l.id # r)
  /\ [][\A r \in Reqs : (Lost(r)' /\ ~Lost(r)) => wallets' = wallets]_vars
  /\ \A r \in Reqs :
       (Lost(r) /\ lease[KeyOf(r)] = r) ~> (lease[KeyOf(r)] # r)
  /\ \A r \in Reqs : \A s \in Reqs \ {r} :
       (/\ Lost(r) /\ KeyOf(s) = KeyOf(r)
        /\ pc[s] = "lock" /\ lease[KeyOf(s)] = NoId
        /\ \A u \in Reqs \ {r, s} : pc[u] = "done")
         ~> (pc[s] = "done" /\ result[s].code # "CONCURRENT_PROCESSING")

\* A process died with the lease; a request that came before the TTL ran out
\* gave up with CONCURRENT_PROCESSING, and one that came after it took the
\* lease and carried the transfer out.
C37_Witness ==
  \E r, s, u \in Reqs :
    /\ Lost(r)
    /\ KeyOf(s) = KeyOf(r) /\ KeyOf(u) = KeyOf(r)
    /\ pc[u] = "done" /\ result[u].code = "CONCURRENT_PROCESSING"
    /\ pc[s] = "done" /\ result[s].success /\ result[s].transactionId = s
    /\ lease[KeyOf(r)] = NoId
    /\ \A w \in Rows : wallets[w].balance # initial[w]

\* r passes the validator, and the committed log of its key is of another
\* request and names other wallets or another amount than r does.
OtherBody(r) ==
  /\ validateTransferRequest(req[r]) = NoResp
  /\ \E l \in logs :
       /\ l.idempotencyKey = KeyOf(r)
       /\ l.id # r
       /\ \/ l.fromWalletId # RowOf(req[r].fromWalletId)
          \/ l.toWalletId # RowOf(req[r].toWalletId)
          \/ l.amount # AmountMoney(req[r].amount)

\* The step is one of r's.
Moves(r) ==
  \/ pc'[r] # pc[r]
  \/ attempt'[r] # attempt[r]
  \/ result'[r] # result[r]

\* r has not passed the ledger lookup, or was answered by it.
Arriving(r) ==
  \/ pc[r] \in {"init", "cache_get", "lock", "find", "fb_find", "fb_cache",
                "replay_cache"}
  \/ pc[r] = "release" /\ result[r].code = ""

ReplayOf(res, r) == res.code = "" /\ res.transactionId \notin {NoId, r}

\* Before the executor, or answered without it.
Shielded(r) ==
  /\ pc[r] \in {"init", "cache_get", "lock", "find", "fb_find", "fb_cache",
                "replay_cache", "release", "done"}
  /\ pc[r] \in {"fb_cache", "replay_cache", "release", "done"} =>
       \/ ReplayOf(result[r], r)
       \/ result[r].code = "CONCURRENT_PROCESSING"

\* No insert ever meets a committed row of its key.
NoUniqueViolation ==
  \A r \in Reqs :
    /\ result[r].code # "DUPLICATE_REQUEST"
    /\ pc[r] = "tx_insert" => ~UniqueViolation(KeyOf(r))

\* A request that was refused the lease at least once, because its key was
\* in flight, is answered by a replay or with CONCURRENT_PROCESSING.
InFlightKeyOutcome ==
  \A r \in Reqs : attempt[r] >= 1 => Shielded(r)

\* A request that has not passed the ledger lookup when its key has a
\* committed log stays out of the executor and is answered by a replay or
\* with CONCURRENT_PROCESSING.
UsedKeyOutcome ==
  \A r \in Reqs :
    (/\ validateTransferRequest(req[r]) = NoResp
     /\ \E l \in logs : l.idempotencyKey = KeyOf(r) /\ l.id # r
     /\ Arriving(r)
     /\ Moves(r)) => Shielded(r)'

\* C39 (tier 2 shields tier 3): with a Redis that answers every call and no
\* lease expiring under its holder, no request meets a unique-constraint
\* violation or ends with DUPLICATE_REQUEST, and a request for a key that is
\* already used or in flight ends with a replayed result or with
\* CONCURRENT_PROCESSING.
C39_Tier2ShieldsTier3 ==
  /\ []NoUniqueViolation
  /\ []InFlightKeyOutcome
  /\ [][UsedKeyOutcome]_vars

====
